---- MODULE Spec2Model ----
(***************************************************************************)
(* Model of honeycomb.py: generate_honeycomb_svg and calculate_hexagon.    *)
(*                                                                         *)
(* Numbers.  The program computes with floats (mm).  The model computes    *)
(* with exact rationals held as integers in units of 1/Scale mm.  Angles   *)
(* are held in units of 1/10000 degree and are taken from a table of       *)
(* angles whose half-complement alpha = (180 - angle)/2 has a rational     *)
(* sine and cosine (3-4-5 and 5-12-13 triangles, and the axis angles), so  *)
(* that every product length * cos(alpha), length * sin(alpha), x_step / 2 *)
(* and distance / 2 is an exact multiple of 1/Scale mm.                    *)
(***************************************************************************)
EXTENDS Integers, Sequences, FiniteSets

\* ------------------------------------------------------------------ bounds
MaxColumns == 3
MaxRows == 3
MaxLength == 2
MaxDistance == 2

\* --------------------------------------------------------- number system
\* Denominator of the fixed-point representation of a float (1/130 mm).
Scale == 2 * 65

\* A float holding the integer value v (mm).
Fx(v) == Scale * v

\* Angles (1/10000 degree) the model draws `angle` from.
\*   valid, in (0,180):  45.2398, 73.7398, 106.2602, 134.7602
\*   invalid:            -73.7398, 0, 180, 253.7398
ValidAngles == {452398, 737398, 1062602, 1347602}
InvalidAngles == {0 - 737398, 0, 1800000, 2537398}
Angles == ValidAngles \cup InvalidAngles

\* (180 - a) / 2 in 1/10000 degree; exact, every angle of the table is even.
HalfComplement(a) == (180 * 10000 - a) \div 2

\* math.cos(math.radians(alpha)) * Scale, alpha in 1/10000 degree.
Cos(alpha) ==
    CASE alpha = 0        ->  130
      [] alpha = 226199   ->  120
      [] alpha = 368699   ->  104
      [] alpha = 531301   ->  78
      [] alpha = 673801   ->  50
      [] alpha = 900000   ->  0
      [] alpha = 1268699  ->  0 - 78
      [] alpha = 0 - 368699 -> 104

\* math.sin(math.radians(alpha)) * Scale, alpha in 1/10000 degree.
Sin(alpha) ==
    CASE alpha = 0        ->  0
      [] alpha = 226199   ->  50
      [] alpha = 368699   ->  78
      [] alpha = 531301   ->  104
      [] alpha = 673801   ->  120
      [] alpha = 900000   ->  130
      [] alpha = 1268699  ->  104
      [] alpha = 0 - 368699 -> 0 - 78

\* ------------------------------------------------------------------ state
VARIABLES columns, rows, length, angle, distance,
          hexagon_width, hexagon_height, x_step, y_step, x_offset,
          total_width, total_height,
          pc, row, col, x, y, points, svg

params == <<columns, rows, length, angle, distance>>
dims == <<hexagon_width, hexagon_height, x_step, y_step, x_offset,
          total_width, total_height>>
vars == <<columns, rows, length, angle, distance,
          hexagon_width, hexagon_height, x_step, y_step, x_offset,
          total_width, total_height,
          pc, row, col, x, y, points, svg>>

\* --------------------------------------------------- calculate_hexagon
\* The six vertices, starting top-left and going clockwise.  ax, ay are
\* floats (1/Scale mm); side_length is in mm; top_angle in 1/10000 degree.
calculate_hexagon(ax, ay, side_length, top_angle) ==
    LET half_angle == HalfComplement(top_angle)
        dx == side_length * Cos(half_angle)
        dy == side_length * Sin(half_angle)
        sl == Fx(side_length)
    IN  << <<ax - dx, ay + dy>>,
           <<ax + dx, ay + dy>>,
           <<ax + dx + sl, ay + dy * 2>>,
           <<ax + dx, ay + dy * 2 + sl>>,
           <<ax - dx, ay + dy * 2 + sl>>,
           <<ax - dx - sl, ay + dy * 2>> >>

\* ------------------------------------------------ generate_honeycomb_svg
\* range(n) taken to include n
InRangeInclusive(i, n) == 0 <= i /\ i <= n

\* i in range(n)
InRange(i, n) == 0 <= i /\ i < n

IsOddRow(r) == r % 2 = 1

\* every row given the full number of columns
RowColumnsFull(r) == columns

RowColumns(r) == IF ~IsOddRow(r) THEN columns ELSE columns - 1

\* the half-pitch shift applied to the even rows instead of the odd ones
AnchorXEvenShift(r, c) ==
    IF ~IsOddRow(r) THEN c * x_step + x_offset ELSE c * x_step

\* x and y of the anchor of cell (r, c)
AnchorX(r, c) == IF IsOddRow(r) THEN c * x_step + x_offset ELSE c * x_step

AnchorY(r, c) == r * y_step

\* The pieces of the document
Header(w, h) == [kind |-> "header", width |-> w, height |-> h,
                 viewBox |-> <<0, 0, w, h>>, points |-> << >>]

Polygon(pts) == [kind |-> "polygon", width |-> 0, height |-> 0,
                 viewBox |-> << >>, points |-> pts]

CloseMarker == [kind |-> "close", width |-> 0, height |-> 0,
                viewBox |-> << >>, points |-> << >>]

\* the piece put in front of the document instead of behind it
EmitInFront(doc, piece) == <<piece>> \o doc

\* svg += piece
Emit(doc, piece) == Append(doc, piece)

Init ==
    /\ columns \in -1 .. MaxColumns
    /\ rows \in -1 .. MaxRows
    /\ length \in -1 .. MaxLength
    /\ angle \in Angles
    /\ distance \in 0 .. MaxDistance
    /\ hexagon_width = 0 /\ hexagon_height = 0
    /\ x_step = 0 /\ y_step = 0 /\ x_offset = 0
    /\ total_width = 0 /\ total_height = 0
    /\ pc = "start"
    /\ row = 0 /\ col = 0 /\ x = 0 /\ y = 0
    /\ points = << >>
    /\ svg = << >>

\* The geometry precondition the program never tests.
ValidGeometry == 0 < angle /\ angle < 180 * 10000 /\ length > 0

ValidGrid == columns >= 1 /\ rows >= 1

\* Setup with a precondition check in front: invalid geometry ends the call
\* with nothing emitted.
SetupChecked ==
    /\ pc = "start"
    /\ IF ValidGeometry
       THEN LET alpha == HalfComplement(angle)
                hw == 2 * length * Cos(alpha)
                xs == hw + Fx(distance)
                ys == Fx(length) + length * Sin(alpha) + Fx(distance) \div 2
                tw == columns * xs + xs \div 2
                th == rows * ys + length * Sin(alpha)
            IN  /\ hexagon_height' = 2 * length * Sin(alpha) + Fx(length)
                /\ hexagon_width' = hw
                /\ x_step' = xs
                /\ y_step' = ys
                /\ x_offset' = xs \div 2
                /\ total_width' = tw
                /\ total_height' = th
                /\ svg' = Emit(svg, Header(tw, th))
                /\ pc' = "rows"
       ELSE /\ pc' = "done"
            /\ UNCHANGED <<dims, svg>>
    /\ row' = 0
    /\ UNCHANGED <<params, col, x, y, points>>

\* Lines 22-55: the cell's extents, the pitches, the canvas, the header.
Setup ==
    /\ pc = "start"
    /\ LET alpha == HalfComplement(angle)
           hh == 2 * length * Sin(alpha) + Fx(length)
           hw == 2 * length * Cos(alpha)
           xs == hw + Fx(distance)
           ys == Fx(length) + length * Sin(alpha) + Fx(distance) \div 2
           xo == xs \div 2
           tw == columns * xs + xo
           th == rows * ys + length * Sin(alpha)
       IN  /\ hexagon_height' = hh
           /\ hexagon_width' = hw
           /\ x_step' = xs
           /\ y_step' = ys
           /\ x_offset' = xo
           /\ total_width' = tw
           /\ total_height' = th
           /\ svg' = Emit(svg, Header(tw, th))
    /\ row' = 0
    /\ pc' = "rows"
    /\ UNCHANGED <<params, col, x, y, points>>

\* Line 58, a row is left: lines 59-62.
RowStart ==
    /\ pc = "rows"
    /\ InRange(row, rows)
    /\ col' = 0
    /\ pc' = "cols"
    /\ UNCHANGED <<params, dims, row, x, y, points, svg>>

\* Line 58, range(rows) is exhausted.
RowsDone ==
    /\ pc = "rows"
    /\ ~InRange(row, rows)
    /\ pc' = "close"
    /\ UNCHANGED <<params, dims, row, col, x, y, points, svg>>

\* Lines 64-76: one cell.
Cell ==
    /\ pc = "cols"
    /\ InRange(col, RowColumns(row))
    /\ x' = AnchorX(row, col)
    /\ y' = AnchorY(row, col)
    /\ points' = calculate_hexagon(x', y', length, angle)
    /\ svg' = Emit(svg, Polygon(points'))
    /\ col' = col + 1
    /\ UNCHANGED <<params, dims, pc, row>>

\* Line 64, range(row_columns) is exhausted: on to the next row.
RowEnd ==
    /\ pc = "cols"
    /\ ~InRange(col, RowColumns(row))
    /\ row' = row + 1
    /\ pc' = "rows"
    /\ UNCHANGED <<params, dims, col, x, y, points, svg>>

\* Lines 79-81: the closing marker, and the document is returned.
Close ==
    /\ pc = "close"
    /\ svg' = Emit(svg, CloseMarker)
    /\ pc' = "done"
    /\ UNCHANGED <<params, dims, row, col, x, y, points>>

Next == Setup \/ RowStart \/ RowsDone \/ Cell \/ RowEnd \/ Close

Spec == Init /\ [][Next]_vars

\* ---------------------------------------------------------------- helpers
PolygonIdx == {i \in 1 .. Len(svg) : svg[i].kind = "polygon"}

NumPolygons == Cardinality(PolygonIdx)

Xs(pts) == {pts[i][1] : i \in 1 .. Len(pts)}

Ys(pts) == {pts[i][2] : i \in 1 .. Len(pts)}

Max(S) == CHOOSE m \in S : \A n \in S : n <= m

Min(S) == CHOOSE m \in S : \A n \in S : m <= n

\* Every x, every y of every vertex of every emitted polygon.
AllXs == UNION {Xs(svg[i].points) : i \in PolygonIdx}

AllYs == UNION {Ys(svg[i].points) : i \in PolygonIdx}

DistSq(p, q) == (p[1] - q[1]) * (p[1] - q[1]) + (p[2] - q[2]) * (p[2] - q[2])

\* The cells of the grid in row-major order, as <<row, col>>: an even row
\* has `columns` cells and an odd row `columns - 1`.
CellsOfRow(r) ==
    LET n == IF r % 2 = 0 THEN columns ELSE columns - 1
    IN  [i \in 1 .. (IF n < 0 THEN 0 ELSE n) |-> <<r, i - 1>>]

RECURSIVE CellsUpTo(_)
CellsUpTo(n) == IF n <= 0 THEN << >> ELSE CellsUpTo(n - 1) \o CellsOfRow(n - 1)

ExpectedCells == CellsUpTo(rows)

\* The anchor the grid layout is said to give cell <<r, c>>.
ExpectedAnchor(cell) ==
    <<cell[2] * x_step + (IF cell[1] % 2 = 1 THEN x_step \div 2 ELSE 0),
      cell[1] * y_step>>

ExpectedPoints(cell) ==
    calculate_hexagon(ExpectedAnchor(cell)[1], ExpectedAnchor(cell)[2],
                      length, angle)

\* ------------------------------------------------------------------ claims

\* C1: for valid side_length and top_angle, calculate_hexagon returns exactly
\* 6 points and each of the 6 cyclically consecutive pairs is at distance
\* side_length.  (Stated on squared distances.)  The code violates it.
C1_EqualSides ==
    (ValidGeometry /\ points # << >>) =>
        /\ Len(points) = 6
        /\ \A i \in 1 .. 6 :
              DistSq(points[i], points[(i % 6) + 1]) = Fx(length) * Fx(length)

\* C2: for columns >= 1 and rows >= 1 the number of polygons emitted is
\* rows*columns - floor(rows/2); after each completed row r the count is
\* that of the first r rows (even rows add `columns`, odd rows
\* `columns - 1`).
C2_PolygonCount ==
    ValidGrid =>
        /\ pc = "rows" => NumPolygons = row * columns - (row \div 2)
        /\ pc = "cols" =>
              NumPolygons = row * columns - (row \div 2) + col
        /\ pc = "cols" => col <= (IF row % 2 = 0 THEN columns ELSE columns - 1)
        /\ pc \in {"close", "done"} =>
              NumPolygons = rows * columns - (rows \div 2)

C2_Witness ==
    /\ pc = "done" /\ columns = 2 /\ rows = 2 /\ NumPolygons = 3

\* C3: for valid parameters the canvas is at least the maximum vertex x
\* (resp. y) plus distance wide (resp. high).  The code violates it.
C3_CanvasMargin ==
    (ValidGrid /\ ValidGeometry /\ pc = "done") =>
        /\ total_width >= Max(AllXs) + Fx(distance)
        /\ total_height >= Max(AllYs) + Fx(distance)

\* C4: neighbours in a row are separated horizontally by at least distance
\* (leftmost x of the right hexagon minus rightmost x of the left one), and
\* vertices of hexagons in neighbouring rows are at least distance apart.
\* The code violates it.
C4_Separation ==
    (ValidGrid /\ ValidGeometry /\ pc = "done") =>
        \A i, j \in 1 .. Len(ExpectedCells) :
            LET a == ExpectedCells[i]
                b == ExpectedCells[j]
                pa == svg[i + 1].points
                pb == svg[j + 1].points
            IN  /\ (a[1] = b[1] /\ b[2] = a[2] + 1) =>
                      Min(Xs(pb)) - Max(Xs(pa)) >= Fx(distance)
                /\ (b[1] = a[1] + 1 /\ (b[2] = a[2] \/ b[2] + 1 = a[2])) =>
                      \A m, n \in 1 .. 6 :
                          DistSq(pa[m], pb[n]) >= Fx(distance) * Fx(distance)

\* C5 as claimed: with an invalid angle or length the call fails before any
\* vertex is computed and before any output is produced.
C5_FailsFast ==
    ~ValidGeometry => (svg = << >> /\ points = << >> /\ pc # "done")

\* C5 as amended: with an invalid angle or length no check is made; the
\* header is emitted, every cell's polygon is computed and emitted, and the
\* complete document is returned, exactly as for valid geometry.
C5_NoValidation ==
    ~ValidGeometry =>
        /\ pc # "start" => (svg # << >> /\ svg[1].kind = "header")
        /\ pc = "done" =>
              /\ Len(svg) = Len(ExpectedCells) + 2
              /\ svg[Len(svg)].kind = "close"
              /\ \A i \in 1 .. Len(ExpectedCells) :
                    svg[i + 1].kind = "polygon" /\ Len(svg[i + 1].points) = 6

C5_Witness ==
    /\ ~ValidGeometry /\ pc = "done" /\ NumPolygons > 0 /\ points # << >>

\* C6: with columns <= 0 or rows <= 0 no polygon is ever emitted and the
\* returned document is the header followed by the closing marker.
C6_EmptyGrid ==
    (columns <= 0 \/ rows <= 0) =>
        /\ NumPolygons = 0
        /\ points = << >>
        /\ pc = "done" => svg = <<Header(total_width, total_height), CloseMarker>>

C6_Witness ==
    /\ pc = "done" /\ columns <= 0 /\ rows >= 1 /\ Len(svg) = 2

\* C7: for valid parameters every vertex of every emitted polygon lies in
\* the viewBox: 0 <= vx <= total_width and 0 <= vy <= total_height.  The
\* code violates it.
C7_InsideViewBox ==
    (ValidGrid /\ ValidGeometry) =>
        /\ \A vx \in AllXs : 0 <= vx /\ vx <= total_width
        /\ \A vy \in AllYs : 0 <= vy /\ vy <= total_height

\* C8: the anchor passed to calculate_hexagon for cell (row, col) is
\* x = col * x_step + (x_step / 2 if row is odd, else 0), y = row * y_step,
\* and the polygon emitted for the cell is the hexagon of that anchor.
C8_Anchor ==
    (pc = "cols" /\ col > 0) =>
        /\ x = (col - 1) * x_step + (IF row % 2 = 1 THEN x_step \div 2 ELSE 0)
        /\ y = row * y_step
        /\ points = calculate_hexagon(x, y, length, angle)
        /\ svg[Len(svg)] = Polygon(ExpectedPoints(<<row, col - 1>>))

C8_Witness ==
    /\ pc = "cols" /\ row = 1 /\ col = 2 /\ x_step > 0
    /\ x = x_step + x_step \div 2

\* C9: the header is emitted once and first, then one polygon per cell in
\* row-major order with the vertices in calculate_hexagon's order, then the
\* closing marker once and last; what has been emitted is never altered.
C9_Shape ==
    /\ pc = "start" <=> svg = << >>
    /\ \A i \in 1 .. Len(svg) :
          /\ svg[i].kind = "header" <=> i = 1
          /\ svg[i].kind = "close" <=> (pc = "done" /\ i = Len(svg))
          /\ svg[i].kind = "polygon" =>
                /\ i - 1 <= Len(ExpectedCells)
                /\ svg[i].points = ExpectedPoints(ExpectedCells[i - 1])
    /\ pc = "done" => Len(svg) = Len(ExpectedCells) + 2

C9_AppendOnly ==
    /\ Len(svg') >= Len(svg)
    /\ SubSeq(svg', 1, Len(svg)) = svg

C9_DocumentOrder == [](C9_Shape) /\ [][C9_AppendOnly]_vars

C9_Witness ==
    /\ pc = "done" /\ columns = 2 /\ rows = 3 /\ Len(svg) = 7
    /\ svg[1].kind = "header" /\ svg[7].kind = "close"

\* C10: hexagon_width and hexagon_height equal the extents of the six
\* vertices calculate_hexagon returns.  The code violates it.
C10_ExtentsAgree ==
    (ValidGeometry /\ points # << >>) =>
        /\ hexagon_width = Max(Xs(points)) - Min(Xs(points))
        /\ hexagon_height = Max(Ys(points)) - Min(Ys(points))

====
